---- MODULE Spec2Model ----
(***************************************************************************)
(* Model of custom_components/mta_subway/sensor.py: the throttled refresh  *)
(* of MTASubwayData (station directory load, concurrent feed fetch, decode,*)
(* aggregation, publication of self.data) and the MTASubwaySensor          *)
(* consumers that call it and read the published snapshot.                 *)
(*                                                                         *)
(* Python's None is the empty sequence and a present value x is <<x>>.     *)
(* Stop ids are sequences of one-character strings, so that stop_id[:-1]   *)
(* is computed and not assumed.                                            *)
(***************************************************************************)
EXTENDS Integers, Sequences, FiniteSets, TLC

VARIABLES
    data,         \* MTASubwayData.data: None or the snapshot {stations, arrivals}
    throttle,     \* host._throttle[id]: the lock and the time of the last run
    now,          \* the wall clock (time.time(), utcnow())
    pc,           \* where each caller of MTASubwayData.update is
    outcome,      \* how each caller's last call of update ended
    loc,          \* the local variables of the running refresh
    sensor,       \* the fields of each MTASubwaySensor
    fetched,      \* requests each caller's current call of update has made
    lastRun,      \* history: when the last completed refresh began and ended
    lastFetch     \* history: when the last fetch cycle issued its first request

vars == <<data, throttle, now, pc, outcome, loc, sensor, fetched,
          lastRun, lastFetch>>

----------------------------------------------------------------------------
(* Bounds of the model *)

\* number of feed endpoints requested per refresh (a prefix of FEED_IDS)
NumFeeds == 2

\* seconds of wall-clock time explored after the start
MaxElapsed == 21

\* the wall clock at start-up (the spec's scenario uses now = 1000)
StartTime == 1000

\* amounts by which the wall clock advances in one step
TickSteps == {10, 11}

----------------------------------------------------------------------------
(* Program constants *)

SCAN_INTERVAL == 20

FEED_IDS == <<1, 26, 16, 21, 2, 11, 31, 36, 51>>

\* the endpoints of the model
Endpoints == {FEED_IDS[i] : i \in 1..NumFeeds}

None == <<>>

Some(x) == <<x>>

EmptyMap == [k \in {} |-> <<>>]

----------------------------------------------------------------------------
(* Configuration: the watched stations (CONF_STATION) *)

AN == <<"A", "N">>

AS == <<"A", "S">>

CN == <<"C", "N">>

CS == <<"C", "S">>

\* config.get(CONF_STATION)
CONF_STATION == <<AN, CS>>

watched_stations == {CONF_STATION[i] : i \in 1..Len(CONF_STATION)}

\* callers of MTASubwayData.update: setup_platform and one sensor per station
Setup == 0

Sensors == 1..Len(CONF_STATION)

Callers == {Setup} \cup Sensors

\* MTASubwaySensor._station_id
station_id(s) == CONF_STATION[s]

----------------------------------------------------------------------------
(* Pure helpers *)

\* stop_id[:-1]
WithoutDirection(stop_id) ==
    IF Len(stop_id) = 0 THEN <<>> ELSE SubSeq(stop_id, 1, Len(stop_id) - 1)

\* stop_id.endswith(ch)
EndsWith(stop_id, ch) == Len(stop_id) > 0 /\ stop_id[Len(stop_id)] = ch

\* math.ceil(float(x) / 60) for an integer x
TimeUntilWrong(arrival, current_time) == (arrival - current_time) \div 60

TimeUntil(arrival, current_time) == 0 - ((current_time - arrival) \div 60)

\* defaultdict(list).__getitem__: a missing key is inserted with an empty list
DefaultGet(arrivals, k) ==
    IF k \in DOMAIN arrivals THEN arrivals ELSE arrivals @@ (k :> <<>>)

\* arrivals[stop_id].append(e) on a defaultdict(list)
DefaultAppend(arrivals, k, e) ==
    [DefaultGet(arrivals, k) EXCEPT ![k] = Append(@, e)]

----------------------------------------------------------------------------
(* The station directory: Stations.csv and __get_stations *)

StopA == <<"A">>

StopC == <<"C">>

\* one row of csv.DictReader: a dict from column name to value
Row(id, name, south, north, complex) ==
    ("GTFS Stop ID" :> id) @@ ("Stop Name" :> name) @@
    ("South Direction Label" :> south) @@
    ("North Direction Label" :> north) @@ ("Complex ID" :> complex)

\* a row of a table that has no "Stop Name" column
RowNoName(id) ==
    ("GTFS Stop ID" :> id) @@ ("South Direction Label" :> "Downtown") @@
    ("North Direction Label" :> "Uptown") @@ ("Complex ID" :> "1")

\* what requests.get(url) can give: an exception, or a response with a
\* status and a body that DictReader splits into rows
DirResponses ==
    { [raises |-> TRUE, status |-> 0, rows |-> <<>>],
      [raises |-> FALSE, status |-> 200,
       rows |-> <<Row(StopA, "Alpha", "Downtown", "Uptown", "1")>>],
      [raises |-> FALSE, status |-> 200,
       rows |-> <<Row(StopA, "Alpha", "Downtown", "Uptown", "1"),
                  Row(StopC, "Gamma", "Brooklyn", "Bronx", "2")>>],
      [raises |-> FALSE, status |-> 200,
       rows |-> <<RowNoName(StopA), RowNoName(StopC)>>],
      [raises |-> FALSE, status |-> 503, rows |-> <<>>] }

RequiredColumns ==
    {"Stop Name", "GTFS Stop ID", "South Direction Label",
     "North Direction Label", "Complex ID"}

\* the dict stored for one row (lines 164-169)
StationRecord(row) ==
    [stop_name |-> row["Stop Name"],
     south_direction_label |-> row["South Direction Label"],
     north_direction_label |-> row["North Direction Label"],
     complex_id |-> row["Complex ID"]]

\* result[row["GTFS Stop ID"]] = {...}: a later row replaces an earlier one
RECURSIVE ReadRows(_, _)
ReadRows(rows, result) ==
    IF rows = <<>> THEN [ok |-> TRUE, result |-> result]
    ELSE LET row == Head(rows) IN
         IF ~(RequiredColumns \subseteq DOMAIN row)
         THEN [ok |-> FALSE, result |-> EmptyMap]
         ELSE LET id == row["GTFS Stop ID"]
                  rest == [k \in (DOMAIN result) \ {id} |-> result[k]]
              IN ReadRows(Tail(rows), rest @@ (id :> StationRecord(row)))

\* __get_stations: raises (ok = FALSE) when requests.get raises or a row
\* lacks a column; the status code is not looked at
GetStationsSwallow(resp) ==
    IF resp.raises THEN [ok |-> TRUE, result |-> EmptyMap]
    ELSE [ok |-> TRUE, result |-> ReadRows(resp.rows, EmptyMap).result]

GetStations(resp) ==
    IF resp.raises THEN [ok |-> FALSE, result |-> EmptyMap]
    ELSE ReadRows(resp.rows, EmptyMap)

----------------------------------------------------------------------------
(* The realtime feeds: responses, decoding (__get_realtime_data) *)

StopTimeUpdate(stop_id, time) == [stop_id |-> stop_id, arrival |-> [time |-> time]]

TripEntity(route_id, updates) ==
    [has_trip_update |-> TRUE,
     trip_update |-> [trip |-> [route_id |-> route_id],
                      stop_time_update |-> updates]]

\* an entity that carries no trip_update (a vehicle position or an alert)
OtherEntity ==
    [has_trip_update |-> FALSE,
     trip_update |-> [trip |-> [route_id |-> ""], stop_time_update |-> <<>>]]

FeedMessage(timestamp, entities) ==
    [header |-> [timestamp |-> timestamp], entity |-> entities]

\* trip "4" has already called at CS a minute ago and trip "5" is due
\* there in exactly a minute
FeedOne ==
    FeedMessage(StartTime - 10,
        <<TripEntity("1", <<StopTimeUpdate(AN, StartTime + 90),
                            StopTimeUpdate(CS, StartTime + 30)>>),
          TripEntity("4", <<StopTimeUpdate(CS, StartTime - 60)>>),
          TripEntity("5", <<StopTimeUpdate(CS, StartTime + 60)>>)>>)

FeedTwo ==
    FeedMessage(StartTime - 5,
        <<OtherEntity,
          TripEntity("2", <<StopTimeUpdate(AN, StartTime + 90),
                            StopTimeUpdate(AS, StartTime + 50)>>),
          TripEntity("3", <<StopTimeUpdate(AN, StartTime + 15)>>)>>)

\* a valid feed with no entity: it contributes nothing
FeedOther == FeedMessage(StartTime - 1, <<>>)

NoContent == FeedMessage(0, <<>>)

\* what an endpoint can answer: a status and a body that parses or not.
\* Each feed id serves its own lines: feed 1 answers 503 or FeedOne, feed 26
\* answers an unparsable body or FeedTwo, the others 503 or an empty feed
FeedResponses(feed_id) ==
    IF feed_id = 1
    THEN { [status_code |-> 503, parses |-> FALSE, content |-> NoContent],
           [status_code |-> 200, parses |-> TRUE, content |-> FeedOne] }
    ELSE IF feed_id = 26
    THEN { [status_code |-> 200, parses |-> FALSE, content |-> NoContent],
           [status_code |-> 200, parses |-> TRUE, content |-> FeedTwo] }
    ELSE { [status_code |-> 503, parses |-> FALSE, content |-> NoContent],
           [status_code |-> 200, parses |-> TRUE, content |-> FeedOther] }

\* the endpoints whose request can also raise (connection refused) instead
\* of giving a response
MayRaise(feed_id) == feed_id = 1

\* lines 187-197 for one response: is the feed appended to data?
Decoded(response) == response.status_code = 200 /\ response.parses

\* lines 183-199: the decoded feeds, in the order of p.responses()
RECURSIVE DecodeEach(_)
DecodeEach(responses) ==
    IF responses = <<>> THEN <<>>
    ELSE IF Decoded(Head(responses))
         THEN <<Head(responses).content>> \o DecodeEach(Tail(responses))
         ELSE DecodeEach(Tail(responses))

DecodeAllFailFast(responses) ==
    IF \E i \in 1..Len(responses) : ~Decoded(responses[i])
    THEN <<>>
    ELSE DecodeEach(responses)

RECURSIVE DecodeAll(_)
DecodeAll(responses) ==
    IF responses = <<>> THEN <<>>
    ELSE IF Decoded(Head(responses))
         THEN <<Head(responses).content>> \o DecodeAll(Tail(responses))
         ELSE DecodeAll(Tail(responses))

----------------------------------------------------------------------------
(* Aggregation (lines 216-240) *)

\* line 231
KeepEither(stop_id, stations, watched) ==
    stop_id \in watched \/ WithoutDirection(stop_id) \in DOMAIN stations

Keep(stop_id, stations, watched) ==
    stop_id \in watched /\ WithoutDirection(stop_id) \in DOMAIN stations

\* lines 232-237
ArrivalEntry(stu, trip, header, current_time) ==
    [time |-> stu.arrival.time,
     line |-> trip.route_id,
     last_updated |-> header.timestamp,
     time_until |-> TimeUntil(stu.arrival.time, current_time)]

\* lines 227-237: the stop-time updates of one trip
RECURSIVE AddUpdates(_, _, _, _, _, _, _)
AddUpdates(arrivals, stus, trip, header, stations, watched, current_time) ==
    IF stus = <<>> THEN arrivals
    ELSE LET stu == Head(stus)
             next == IF Keep(stu.stop_id, stations, watched)
                     THEN DefaultAppend(arrivals, stu.stop_id,
                              ArrivalEntry(stu, trip, header, current_time))
                     ELSE arrivals
         IN AddUpdates(next, Tail(stus), trip, header, stations, watched,
                       current_time)

\* lines 223-237: the entities of one feed
RECURSIVE AddEntities(_, _, _, _, _, _)
AddEntities(arrivals, entities, header, stations, watched, current_time) ==
    IF entities = <<>> THEN arrivals
    ELSE LET entity == Head(entities)
             next == IF entity.has_trip_update
                     THEN AddUpdates(arrivals,
                              entity.trip_update.stop_time_update,
                              entity.trip_update.trip, header, stations,
                              watched, current_time)
                     ELSE arrivals
         IN AddEntities(next, Tail(entities), header, stations, watched,
                        current_time)

\* one iteration of the loop of line 220
AddFeed(arrivals, feed, stations, watched, current_time) ==
    AddEntities(arrivals, feed.entity, feed.header, stations, watched,
                current_time)

\* list.sort(key=time) is stable: an element goes after those with time <= its own
RECURSIVE InsertByTimeUnstable(_, _)
InsertByTimeUnstable(sorted, e) ==
    IF sorted = <<>> THEN <<e>>
    ELSE IF Head(sorted).time < e.time
         THEN <<Head(sorted)>> \o InsertByTimeUnstable(Tail(sorted), e)
         ELSE <<e>> \o sorted

RECURSIVE InsertByTime(_, _)
InsertByTime(sorted, e) ==
    IF sorted = <<>> THEN <<e>>
    ELSE IF Head(sorted).time <= e.time
         THEN <<Head(sorted)>> \o InsertByTime(Tail(sorted), e)
         ELSE <<e>> \o sorted

SortByTimeNone(v) == v

RECURSIVE SortFrom(_, _)
SortFrom(sorted, v) ==
    IF v = <<>> THEN sorted ELSE SortFrom(InsertByTime(sorted, Head(v)), Tail(v))

\* v.sort(key=lambda x: x["time"])
SortByTime(v) == SortFrom(<<>>, v)

\* lines 239-240
SortAll(arrivals) == [k \in DOMAIN arrivals |-> SortByTime(arrivals[k])]

----------------------------------------------------------------------------
(* The throttle: homeassistant.util.Throttle wrapped around update (line 207) *)

\* "force or utcnow() - throttle[1] > self.min_time", force = not throttle[1]
ShouldRunAlways(last, t) == TRUE

ShouldRun(last, t) ==
    last = None \/ t - last[1] > SCAN_INTERVAL

\* "result = method(...); throttle[1] = utcnow()": the time kept is the
\* time at which the method returned, not the time at which it was entered
StampTimeAtStart(started, t) == started

StampTime(started, t) == t

\* the locals of update and of the functions it calls: when the method was
\* entered, r (line 159), stations, the pool's outstanding requests, its
\* response queue and its exception queue, realtime_data, arrivals,
\* current_time, the loop index
NoLocals ==
    [started |-> 0, r |-> None, stations |-> EmptyMap, pending |-> {},
     responses |-> <<>>, exceptions |-> {}, feeds |-> <<>>,
     arrivals |-> EmptyMap, current_time |-> 0, i |-> 0]

NoFetch == [stations |-> 0, feeds |-> 0]

NoSensor ==
    [name |-> None, state |-> None, arrivals |-> None, station_name |-> None,
     station_direction_label |-> None]

\* outcome[c] is how the call of update that c is in, or that raised into c,
\* ended: "none" (no call, or still running), "ok" (the method ran),
\* "throttled" and "busy" (the wrapper returned None without running it),
\* "raised" (an exception left update)

\* where a caller continues when update has returned normally
AfterReturn(c) == IF c = Setup THEN "add" ELSE "L128"

\* where a caller continues when update has raised: setup_platform has no
\* try around data.update(), so the exception ends it before line 48
AfterRaiseGoesOn(c) == IF c = Setup THEN "add" ELSE "idle"

AfterRaise(c) == IF c = Setup THEN "failed" ELSE "idle"

Init ==
    /\ data = None
    /\ throttle = [locked |-> FALSE, last |-> None]
    /\ now = StartTime
    /\ pc = [c \in Callers |-> IF c = Setup THEN "idle" ELSE "absent"]
    /\ outcome = [c \in Callers |-> "none"]
    /\ loc = NoLocals
    /\ sensor = [s \in Sensors |-> NoSensor]
    /\ fetched = [c \in Callers |-> NoFetch]
    /\ lastRun = None
    /\ lastFetch = None

\* time passes
Tick ==
    /\ \E d \in TickSteps :
          /\ now + d <= StartTime + MaxElapsed
          /\ now' = now + d
    /\ UNCHANGED <<data, throttle, pc, outcome, loc, sensor, fetched,
                   lastRun, lastFetch>>

\* throttle[0].acquire(False): taken only when the lock is free
AcquireAlways(locked) == TRUE

Acquire(locked) == ~locked

\* what the wrapper hands back to the caller: the method's result (update
\* returns None) or throttled_value() (None); an exception propagates
ReturnValue(o) == IF o = "raised" THEN "exception" ELSE "None"

\* wrapper: throttle[0].acquire(False); when the lock is taken the call
\* returns throttled_value() at once
Call(c) ==
    /\ pc[c] = "idle"
    /\ fetched' = [fetched EXCEPT ![c] = NoFetch]
    /\ IF Acquire(throttle.locked)
       THEN /\ throttle' = [throttle EXCEPT !.locked = TRUE]
            /\ outcome' = [outcome EXCEPT ![c] = "none"]
            /\ pc' = [pc EXCEPT ![c] = "check"]
       ELSE /\ outcome' = [outcome EXCEPT ![c] = "busy"]
            /\ pc' = [pc EXCEPT ![c] = AfterReturn(c)]
            /\ UNCHANGED throttle
    /\ UNCHANGED <<data, now, loc, sensor, lastRun, lastFetch>>

\* wrapper: run the method, or release the lock and return throttled_value()
Check(c) ==
    /\ pc[c] = "check"
    /\ IF ShouldRun(throttle.last, now)
       THEN /\ pc' = [pc EXCEPT ![c] = "stations"]
            /\ loc' = [NoLocals EXCEPT !.started = now]
            /\ UNCHANGED <<throttle, outcome>>
       ELSE /\ throttle' = [throttle EXCEPT !.locked = FALSE]
            /\ outcome' = [outcome EXCEPT ![c] = "throttled"]
            /\ pc' = [pc EXCEPT ![c] = AfterReturn(c)]
            /\ UNCHANGED loc
    /\ UNCHANGED <<data, now, sensor, fetched, lastRun, lastFetch>>

\* line 159: r = requests.get(url) answers, or raises
RequestStations(c) ==
    /\ pc[c] = "stations"
    /\ \E resp \in DirResponses : loc' = [loc EXCEPT !.r = Some(resp)]
    /\ fetched' = [fetched EXCEPT ![c].stations = @ + 1]
    /\ lastFetch' = Some(now)
    /\ pc' = [pc EXCEPT ![c] = "csv"]
    /\ UNCHANGED <<data, throttle, now, outcome, sensor, lastRun>>

\* lines 160-172 and 212: stations = self.__get_stations(); an exception
\* leaves update through the wrapper's finally (the lock is released,
\* throttle[1] is kept)
LoadStations(c) ==
    /\ pc[c] = "csv"
    /\ LET got == GetStations(loc.r[1]) IN
       IF got.ok
       THEN /\ loc' = [loc EXCEPT !.stations = got.result]
            /\ pc' = [pc EXCEPT ![c] = "pool"]
            /\ UNCHANGED <<throttle, outcome>>
       ELSE /\ throttle' = [throttle EXCEPT !.locked = FALSE]
            /\ outcome' = [outcome EXCEPT ![c] = "raised"]
            /\ pc' = [pc EXCEPT ![c] = AfterRaise(c)]
            /\ loc' = NoLocals
    /\ UNCHANGED <<data, now, sensor, fetched, lastRun, lastFetch>>

\* lines 176-180: one request per endpoint is handed to the pool
StartPool(c) ==
    /\ pc[c] = "pool"
    /\ loc' = [loc EXCEPT !.pending = Endpoints, !.responses = <<>>,
                          !.exceptions = {}]
    /\ fetched' = [fetched EXCEPT ![c].feeds = @ + Cardinality(Endpoints)]
    /\ pc' = [pc EXCEPT ![c] = "join"]
    /\ UNCHANGED <<data, throttle, now, outcome, sensor, lastRun, lastFetch>>

\* a pool worker finishes its request: the response is queued, in the
\* order in which the requests complete
FetchComplete(c) ==
    /\ pc[c] = "join"
    /\ \E e \in loc.pending : \E r \in FeedResponses(e) :
          loc' = [loc EXCEPT !.pending = @ \ {e},
                             !.responses = Append(@, r)]
    /\ UNCHANGED <<data, throttle, now, pc, outcome, sensor, fetched,
                   lastRun, lastFetch>>

\* a pool worker's request raises (the endpoint cannot be reached): the
\* exception goes to the pool's exception queue, which the code never
\* reads, and the worker takes the next job
FetchRaises(c) ==
    /\ pc[c] = "join"
    /\ \E e \in loc.pending :
          /\ MayRaise(e)
          /\ loc' = [loc EXCEPT !.pending = @ \ {e},
                                !.exceptions = @ \cup {e}]
    /\ UNCHANGED <<data, throttle, now, pc, outcome, sensor, fetched,
                   lastRun, lastFetch>>

\* p.join_all() returns when every worker has ended, that is when no
\* request is outstanding, whatever became of the others
JoinedFailFast(pending, responses, exceptions) ==
    \/ pending = {}
    \/ exceptions # {}
    \/ \E i \in 1..Len(responses) : ~Decoded(responses[i])

Joined(pending, responses, exceptions) == pending = {}

\* line 216: arrivals = defaultdict(list), whatever self.data holds
NewArrivalsMerged(old) == IF old = None THEN EmptyMap ELSE old[1].arrivals

NewArrivals(old) == EmptyMap

\* lines 181-199 and 216-218: join_all returns, every queued response is
\* decoded, arrivals starts empty and current_time is read
JoinAndDecode(c) ==
    /\ pc[c] = "join"
    /\ Joined(loc.pending, loc.responses, loc.exceptions)
    /\ loc' = [loc EXCEPT !.feeds = DecodeAll(loc.responses),
                          !.arrivals = NewArrivals(data),
                          !.current_time = now,
                          !.i = 1]
    /\ pc' = [pc EXCEPT ![c] = "aggregate"]
    /\ UNCHANGED <<data, throttle, now, outcome, sensor, fetched,
                   lastRun, lastFetch>>

\* what self.data holds while the local arrivals is being built: the code
\* assigns self.data only at line 242
WhileBuildingInPlace(old, stations, arrivals) ==
    Some([stations |-> stations, arrivals |-> arrivals])

WhileBuilding(old, stations, arrivals) == old

\* lines 220-237: one feed of realtime_data is aggregated
Aggregate(c) ==
    /\ pc[c] = "aggregate"
    /\ loc.i <= Len(loc.feeds)
    /\ LET arr == AddFeed(loc.arrivals, loc.feeds[loc.i], loc.stations,
                          watched_stations, loc.current_time) IN
          /\ loc' = [loc EXCEPT !.arrivals = arr, !.i = @ + 1]
          /\ data' = WhileBuilding(data, loc.stations, arr)
    /\ UNCHANGED <<throttle, now, pc, outcome, sensor, fetched,
                   lastRun, lastFetch>>

\* lines 239-240
Sort(c) ==
    /\ pc[c] = "aggregate"
    /\ loc.i > Len(loc.feeds)
    /\ loc' = [loc EXCEPT !.arrivals = SortAll(@)]
    /\ pc' = [pc EXCEPT ![c] = "publish"]
    /\ UNCHANGED <<data, throttle, now, outcome, sensor, fetched,
                   lastRun, lastFetch>>

\* lines 242-245: self.data = {"stations": stations, "arrivals": arrivals}
Publish(c) ==
    /\ pc[c] = "publish"
    /\ data' = Some([stations |-> loc.stations, arrivals |-> loc.arrivals])
    /\ pc' = [pc EXCEPT ![c] = "stamp"]
    /\ UNCHANGED <<throttle, now, outcome, loc, sensor, fetched,
                   lastRun, lastFetch>>

\* wrapper: throttle[1] = utcnow(); return result; finally release
Stamp(c) ==
    /\ pc[c] = "stamp"
    /\ throttle' = [locked |-> FALSE,
                    last |-> Some(StampTime(loc.started, now))]
    /\ lastRun' = Some([started |-> loc.started, completed |-> now])
    /\ outcome' = [outcome EXCEPT ![c] = "ok"]
    /\ loc' = NoLocals
    /\ pc' = [pc EXCEPT ![c] = AfterReturn(c)]
    /\ UNCHANGED <<data, now, sensor, fetched, lastFetch>>

\* setup_platform, lines 48-52: the sensors are created once the first
\* update has returned
AddDevices ==
    /\ pc[Setup] = "add"
    /\ pc' = [c \in Callers |-> IF c = Setup THEN "done" ELSE "idle"]
    /\ UNCHANGED <<data, throttle, now, outcome, loc, sensor, fetched,
                   lastRun, lastFetch>>

----------------------------------------------------------------------------
(* MTASubwaySensor *)

\* self._data.data["arrivals"][station_id] on the published defaultdict:
\* the snapshot after the lookup
Lookup(snapshot, k) ==
    [snapshot EXCEPT !.arrivals = DefaultGet(@, k)]

\* lines 147-148: the except clause logs the error and update returns; it
\* assigns no field of the sensor
ExceptClears(fields) == NoSensor

Except(fields) == fields

\* lines 128-130: station_data = self._data.data["arrivals"][station_id],
\* then self._state = station_data[0]["time"]; the IndexError of an empty
\* list is logged by the except of line 147 and update returns
L128(s) ==
    /\ pc[s] = "L128"
    /\ IF data = None
       THEN /\ outcome' = [outcome EXCEPT ![s] = "raised"]
            /\ pc' = [pc EXCEPT ![s] = "idle"]
            /\ UNCHANGED <<data, sensor>>
       ELSE LET after == Lookup(data[1], station_id(s))
                station_data == after.arrivals[station_id(s)]
            IN /\ data' = Some(after)
               /\ IF station_data = <<>>
                  THEN /\ pc' = [pc EXCEPT ![s] = "idle"]
                       /\ outcome' = [outcome EXCEPT ![s] = "none"]
                       /\ sensor' = [sensor EXCEPT ![s] = Except(@)]
                  ELSE /\ sensor' = [sensor EXCEPT
                                 ![s].state = Some(station_data[1].time)]
                       /\ pc' = [pc EXCEPT ![s] = "L131"]
                       /\ UNCHANGED outcome
    /\ UNCHANGED <<throttle, now, loc, fetched, lastRun, lastFetch>>

\* line 131: self._arrivals = self._data.data["arrivals"][self._station_id]
L131(s) ==
    /\ pc[s] = "L131"
    /\ LET after == Lookup(data[1], station_id(s)) IN
          /\ data' = Some(after)
          /\ sensor' = [sensor EXCEPT ![s].arrivals =
                            Some(after.arrivals[station_id(s)])]
    /\ pc' = [pc EXCEPT ![s] = "L133"]
    /\ UNCHANGED <<throttle, now, outcome, loc, fetched,
                   lastRun, lastFetch>>

\* lines 133-144: the labels and the name from the stations of the
\* snapshot; a KeyError or a bad suffix is logged by the except of line 147
L133(s) ==
    /\ pc[s] = "L133"
    /\ LET id == station_id(s)
           base == WithoutDirection(id)
           stations == data[1].stations
       IN IF base \in DOMAIN stations /\ EndsWith(id, "N")
          THEN sensor' = [sensor EXCEPT
                   ![s].station_direction_label =
                       Some(stations[base].north_direction_label),
                   ![s].name = Some(<<"MTA: ", stations[base].stop_name, " Uptown">>),
                   ![s].station_name = Some(stations[base].stop_name)]
          ELSE IF base \in DOMAIN stations /\ EndsWith(id, "S")
          THEN sensor' = [sensor EXCEPT
                   ![s].station_direction_label =
                       Some(stations[base].south_direction_label),
                   ![s].name = Some(<<"MTA: ", stations[base].stop_name, " Downtown">>),
                   ![s].station_name = Some(stations[base].stop_name)]
          ELSE UNCHANGED sensor
    /\ pc' = [pc EXCEPT ![s] = "idle"]
    /\ outcome' = [outcome EXCEPT ![s] = "none"]
    /\ UNCHANGED <<data, throttle, now, loc, fetched, lastRun, lastFetch>>

\* lines 112-118: the property looks the station up in the published
\* defaultdict; the IndexError of an empty list is caught
UnitOfMeasurement(s) ==
    /\ pc[s] # "absent"
    /\ data # None
    /\ data' = Some(Lookup(data[1], station_id(s)))
    /\ UNCHANGED <<throttle, now, pc, outcome, loc, sensor, fetched,
                   lastRun, lastFetch>>

\* lines 102-110: the property reads the sensor's fields and changes nothing
DeviceStateAttributes(s) ==
    /\ pc[s] # "absent"
    /\ UNCHANGED vars

Next ==
    \/ Tick
    \/ AddDevices
    \/ \E c \in Callers :
          \/ Call(c)
          \/ Check(c)
          \/ RequestStations(c)
          \/ LoadStations(c)
          \/ StartPool(c)
          \/ FetchComplete(c)
          \/ FetchRaises(c)
          \/ JoinAndDecode(c)
          \/ Aggregate(c)
          \/ Sort(c)
          \/ Publish(c)
          \/ Stamp(c)
    \/ \E s \in Sensors :
          \/ L128(s)
          \/ L131(s)
          \/ L133(s)
          \/ UnitOfMeasurement(s)
          \/ DeviceStateAttributes(s)

Spec == Init /\ [][Next]_vars

----------------------------------------------------------------------------
(* Definitions used to state the properties *)

\* the controller is Fresh: less than SCAN_INTERVAL after the last refresh
Fresh == lastRun # None /\ now - lastRun[1].completed < SCAN_INTERVAL

\* the callers that hold the throttle's lock
InWrapper ==
    {"check", "stations", "csv", "pool", "join", "aggregate", "publish",
     "stamp"}

\* the callers that are inside the method update
InMethod == InWrapper \ {"check", "stamp"}

\* the station directory load fails on this answer of requests.get
DirectoryLoadFails(r) ==
    r.raises \/ \E i \in 1..Len(r.rows) : ~(RequiredColumns \subseteq DOMAIN r.rows[i])

\* the feeds of the responses that came back with status 200 and parse
SuccessfulFeeds(responses) ==
    LET ok == SelectSeq(responses, LAMBDA r : r.status_code = 200 /\ r.parses)
    IN [i \in 1..Len(ok) |-> ok[i].content]

\* every stop-time update of the feeds, as <<feed, entity, update>> indexes
Updates(feeds) ==
    UNION {UNION {{<<f, e, u>> :
                     u \in 1..Len(feeds[f].entity[e].trip_update.stop_time_update)} :
                  e \in {x \in 1..Len(feeds[f].entity) :
                            feeds[f].entity[x].has_trip_update}} :
           f \in 1..Len(feeds)}

UpdateAt(feeds, t) == feeds[t[1]].entity[t[2]].trip_update.stop_time_update[t[3]]

StopOf(feeds, t) == UpdateAt(feeds, t).stop_id

\* the entry that the update at t gives when it is kept
EntryOf(feeds, t, current_time) ==
    ArrivalEntry(UpdateAt(feeds, t), feeds[t[1]].entity[t[2]].trip_update.trip,
                 feeds[t[1]].header, current_time)

\* the updates of the feeds that belong under stop id k
Wanted(feeds, stations, k) ==
    {t \in Updates(feeds) :
        /\ StopOf(feeds, t) = k
        /\ k \in watched_stations
        /\ WithoutDirection(k) \in DOMAIN stations}

\* arrivals.get(k, []): an absent key and an empty list are the same
Get(arrivals, k) == IF k \in DOMAIN arrivals THEN arrivals[k] ELSE <<>>

\* arrivals holds, under every stop id, exactly the wanted updates of the
\* feeds (as a bag: the order is left open)
ExactlyTheUpdates(arrivals, stations, feeds, current_time) ==
    \A k \in (DOMAIN arrivals) \cup {StopOf(feeds, t) : t \in Updates(feeds)} :
        LET have == Get(arrivals, k)
            want == Wanted(feeds, stations, k)
        IN /\ Len(have) = Cardinality(want)
           /\ \A t \in want :
                 Cardinality({i \in 1..Len(have) :
                                 have[i] = EntryOf(feeds, t, current_time)})
                 = Cardinality({t2 \in want :
                                   EntryOf(feeds, t2, current_time)
                                   = EntryOf(feeds, t, current_time)})

----------------------------------------------------------------------------
(* C1 *)

\* C1: a call of update made while the controller is Fresh (less than
\* SCAN_INTERVAL after the last refresh) returns from the wrapper without
\* entering the method: it makes no request for the directory or for a feed
\* and leaves self.data as it is, so the fetches are those of the first call
C1_FreshCallIsNoOp ==
    /\ [][\A c \in Callers :
            (pc[c] \in {"idle", "check"} /\ Fresh /\ pc'[c] \notin {"idle", "check"}) =>
                /\ pc'[c] = AfterReturn(c)
                /\ data' = data
                /\ loc' = loc
                /\ fetched'[c] = NoFetch]_vars
    /\ [](\A c \in Callers :
            outcome[c] \in {"throttled", "busy"} => fetched[c] = NoFetch)

C1_Witness ==
    \E c \in Callers :
        /\ outcome[c] = "throttled"
        /\ pc[c] = "L128"
        /\ Fresh
        /\ data # None

----------------------------------------------------------------------------
(* C2 *)

\* C2: when the station directory load fails, the step that fails leaves
\* self.data as it was (None on the first run), the call has made no feed
\* request, and the exception reaches the caller of update
C2_DirectoryFailureKeepsSnapshot ==
    [][\A c \in Callers :
         (pc[c] = "csv" /\ DirectoryLoadFails(loc.r[1]) /\ pc'[c] # "csv") =>
             /\ data' = data
             /\ outcome'[c] = "raised"
             /\ ReturnValue(outcome'[c]) = "exception"
             /\ pc'[c] = AfterRaise(c)
             /\ fetched'[c].feeds = 0]_vars

C2_Witness ==
    \E s \in Sensors :
        /\ outcome[s] = "raised"
        /\ pc[s] = "idle"
        /\ fetched[s] = [stations |-> 1, feeds |-> 0]
        /\ data # None

----------------------------------------------------------------------------
(* C3 *)

\* C3: whatever subset of the endpoints answers with a non-200 status or a
\* body that does not parse, the refresh assigns a snapshot that holds
\* exactly the watched, directory-known updates of the other feeds, and no
\* exception leaves update once the feeds have been requested
C3_FeedFailuresAreIsolated ==
    /\ \A c \in Callers :
          pc[c] = "stamp" =>
             /\ data # None
             /\ data[1].stations = loc.stations
             /\ ExactlyTheUpdates(data[1].arrivals, loc.stations,
                                  SuccessfulFeeds(loc.responses),
                                  loc.current_time)
    /\ \A c \in Callers : outcome[c] = "raised" => fetched[c].feeds = 0

C3_Witness ==
    \E c \in Callers :
        /\ pc[c] = "stamp"
        /\ \E i, j \in 1..Len(loc.responses) :
              /\ loc.responses[i].status_code # 200
              /\ loc.responses[j].status_code = 200
              /\ loc.responses[j].parses
        /\ \E k \in DOMAIN data[1].arrivals : data[1].arrivals[k] # <<>>

----------------------------------------------------------------------------
(* C4 *)

IsSorted(v) == \A i \in 1..(Len(v) - 1) : v[i].time <= v[i + 1].time

\* new is old with nothing changed but keys added that hold an empty list
OnlyDefaultKeysAdded(old, new) ==
    /\ old # None
    /\ new # None
    /\ new[1].stations = old[1].stations
    /\ DOMAIN old[1].arrivals \subseteq DOMAIN new[1].arrivals
    /\ \A k \in DOMAIN new[1].arrivals :
          new[1].arrivals[k] = Get(old[1].arrivals, k)

\* the step in which the running refresh assigns self.data
Publishes(c) == pc[c] = "publish" /\ pc'[c] = "stamp"

\* C4: what a reader finds in self.data changes only in the one step that
\* assigns it, and what that step assigns is whole: the stations of the
\* running refresh with the arrivals of all its decoded feeds, sorted. While
\* arrivals is being filled and sorted, self.data is still the snapshot of
\* before (a lookup may add a key with an empty list, nothing else)
C4_ReadersSeeWholeSnapshots ==
    [][data' # data =>
         \/ \E c \in Callers :
               /\ Publishes(c)
               /\ data' # None
               /\ data'[1].stations = loc.stations
               /\ ExactlyTheUpdates(data'[1].arrivals, loc.stations, loc.feeds,
                                    loc.current_time)
               /\ \A k \in DOMAIN data'[1].arrivals :
                     IsSorted(data'[1].arrivals[k])
         \/ OnlyDefaultKeysAdded(data, data')]_vars

C4_Witness ==
    \E c \in Callers, s \in Sensors :
        /\ pc[c] = "aggregate"
        /\ loc.i > 1
        /\ \E k \in DOMAIN loc.arrivals : ~IsSorted(loc.arrivals[k])
        /\ pc[s] = "L131"
        /\ data # None
        /\ data[1].stations # loc.stations

----------------------------------------------------------------------------
(* C5 *)

\* C5: between the step that assigns a snapshot and the step that replaces
\* it, no step changes the snapshot's stations or arrivals: self.data
\* changes only when a refresh assigns it
C5_SnapshotNeverMutated ==
    [][data' # data => \E c \in Callers : Publishes(c)]_vars

----------------------------------------------------------------------------
(* C6 *)

\* C6: every entry of the snapshot's arrivals is under a stop id that is
\* watched and whose base id is a key of the stations of the same snapshot,
\* and it is the entry of an update of the refresh's decoded feeds whose
\* stop id is that key
C6_EntriesAreWatchedAndKnown ==
    /\ data # None =>
          \A k \in DOMAIN data[1].arrivals :
              \A i \in 1..Len(data[1].arrivals[k]) :
                  /\ k \in watched_stations
                  /\ WithoutDirection(k) \in DOMAIN data[1].stations
    /\ \A c \in Callers :
          pc[c] = "stamp" =>
              \A k \in DOMAIN data[1].arrivals :
                  \A i \in 1..Len(data[1].arrivals[k]) :
                      \E t \in Updates(loc.feeds) :
                          /\ StopOf(loc.feeds, t) = k
                          /\ EntryOf(loc.feeds, t, loc.current_time)
                             = data[1].arrivals[k][i]

C6_Witness ==
    \E c \in Callers :
        /\ pc[c] = "stamp"
        /\ Get(data[1].arrivals, AN) # <<>>
        /\ StopC \notin DOMAIN data[1].stations
        /\ \E t \in Updates(loc.feeds) : StopOf(loc.feeds, t) = AS
        /\ \E t \in Updates(loc.feeds) : StopOf(loc.feeds, t) = CS

----------------------------------------------------------------------------
(* C7 *)

\* <<feed, entity, update>> a comes before b in the loops of lines 220-227
Before(a, b) ==
    \/ a[1] < b[1]
    \/ a[1] = b[1] /\ a[2] < b[2]
    \/ a[1] = b[1] /\ a[2] = b[2] /\ a[3] < b[3]

\* the entries emitted under stop id k, in the order of emission
Emitted(feeds, stations, k, current_time) ==
    LET want == Wanted(feeds, stations, k)
        order == CHOOSE q \in [1..Cardinality(want) -> want] :
                     \A i, j \in 1..Cardinality(want) :
                         i < j => Before(q[i], q[j])
    IN [i \in 1..Cardinality(want) |-> EntryOf(feeds, order[i], current_time)]

\* the entries of v that arrive at time tm, in the order they have in v
AtTime(v, tm) == SelectSeq(v, LAMBDA e : e.time = tm)

\* C7: in every snapshot each arrivals[stopId] is non-decreasing in time,
\* and the entries with the same time are in the order of their emission
C7_SortedAndStable ==
    /\ data # None =>
          \A k \in DOMAIN data[1].arrivals : IsSorted(data[1].arrivals[k])
    /\ \A c \in Callers :
          pc[c] = "stamp" =>
              \A k \in DOMAIN data[1].arrivals :
                  \A i \in 1..Len(data[1].arrivals[k]) :
                      LET tm == data[1].arrivals[k][i].time IN
                      AtTime(data[1].arrivals[k], tm)
                      = AtTime(Emitted(loc.feeds, loc.stations, k,
                                       loc.current_time), tm)

C7_Witness ==
    \E c \in Callers :
        /\ pc[c] = "stamp"
        /\ \E k \in DOMAIN data[1].arrivals :
              /\ ~IsSorted(Emitted(loc.feeds, loc.stations, k, loc.current_time))
              /\ \E i, j \in 1..Len(data[1].arrivals[k]) :
                    /\ i < j
                    /\ data[1].arrivals[k][i].time = data[1].arrivals[k][j].time
                    /\ data[1].arrivals[k][i] # data[1].arrivals[k][j]

----------------------------------------------------------------------------
(* C8 *)

\* the responses in every order in which the requests can complete
Orders(responses) ==
    {[i \in 1..Len(responses) |-> responses[p[i]]] :
        p \in Permutations(1..Len(responses))}

RECURSIVE AggregateFrom(_, _, _, _)
AggregateFrom(arrivals, feeds, stations, current_time) ==
    IF feeds = <<>> THEN arrivals
    ELSE AggregateFrom(AddFeed(arrivals, Head(feeds), stations,
                               watched_stations, current_time),
                       Tail(feeds), stations, current_time)

\* the arrivals that lines 183-240 give for the responses in this order
ArrivalsFor(responses, stations, current_time) ==
    SortAll(AggregateFrom(EmptyMap, DecodeAll(responses), stations,
                          current_time))

\* arrivals without the keys that hold an empty list
NonEmpty(arrivals) ==
    [k \in {x \in DOMAIN arrivals : arrivals[x] # <<>>} |-> arrivals[k]]

\* the same entries under the same keys, and the same times in the same
\* places: the two differ at most in the order of entries of equal time
SameUpToTies(a, b) ==
    /\ DOMAIN a = DOMAIN b
    /\ \A k \in DOMAIN a :
          /\ Len(a[k]) = Len(b[k])
          /\ \A i \in 1..Len(a[k]) :
                /\ a[k][i].time = b[k][i].time
                /\ Cardinality({j \in 1..Len(a[k]) : a[k][j] = a[k][i]})
                   = Cardinality({j \in 1..Len(b[k]) : b[k][j] = a[k][i]})

\* C8 as stated: the published snapshot is the same for every order in
\* which the feed requests complete
C8_SameForEveryOrder ==
    \A c \in Callers :
        pc[c] = "stamp" =>
            \A other \in Orders(loc.responses) :
                ArrivalsFor(other, loc.stations, loc.current_time)
                = NonEmpty(data[1].arrivals)

\* C8, amended: for every order in which the feed requests complete the
\* published snapshot has the same stations, the same keys, under each key
\* the same entries and the same sequence of times; only entries of equal
\* time under one stop id can change places
C8_SameUpToTiesForEveryOrder ==
    \A c \in Callers :
        pc[c] = "stamp" =>
            \A other \in Orders(loc.responses) :
                SameUpToTies(ArrivalsFor(other, loc.stations, loc.current_time),
                             NonEmpty(data[1].arrivals))

C8_Witness ==
    \E c \in Callers :
        /\ pc[c] = "stamp"
        /\ Len(SuccessfulFeeds(loc.responses)) >= 2
        /\ \E other \in Orders(loc.responses) :
              ArrivalsFor(other, loc.stations, loc.current_time)
              # NonEmpty(data[1].arrivals)

----------------------------------------------------------------------------
(* C9 *)

\* C9 as stated: after a refresh that began at t0 and took d > 0, a call at
\* time t that reaches the throttle's test is turned away exactly when
\* t - t0 < SCAN_INTERVAL
C9_FreshFromStart ==
    [][\A c \in Callers :
         (/\ pc[c] = "check"
          /\ lastRun # None
          /\ lastRun[1].completed > lastRun[1].started
          /\ pc'[c] # "check") =>
             ((outcome'[c] = "throttled")
              <=> (now - lastRun[1].started < SCAN_INTERVAL))]_vars

\* C9, amended: the Fresh period is measured from the completion of the
\* refresh: after a refresh that completed at t1, a call at time t that
\* reaches the throttle's test is turned away exactly when
\* t - t1 <= SCAN_INTERVAL
C9_FreshFromCompletion ==
    [][\A c \in Callers :
         (pc[c] = "check" /\ lastRun # None /\ pc'[c] # "check") =>
             ((outcome'[c] = "throttled")
              <=> (now - lastRun[1].completed <= SCAN_INTERVAL))]_vars

C9_Witness ==
    \E c \in Callers :
        /\ outcome[c] = "throttled"
        /\ pc[c] = "L128"
        /\ lastRun # None
        /\ lastRun[1].completed > lastRun[1].started
        /\ now = lastRun[1].started + SCAN_INTERVAL

----------------------------------------------------------------------------
(* C10 *)

\* C10 as stated: a caller that arrives while a refresh is running waits for
\* it, or gets an explicit refresh-in-progress signal: no caller has been
\* turned away from a refresh that is still running with nothing but None
C10_BusyCallerWaitsOrIsTold ==
    \A c \in Callers :
        (outcome[c] = "busy" /\ \E d \in Callers \ {c} : pc[d] \in InMethod)
            => ReturnValue(outcome[c]) = "refresh in progress"

\* C10, amended: at most one caller is inside the throttle's lock at any
\* time; a caller that arrives while a refresh is running is turned away at
\* once with None, as a throttled call is, having made no request; and the
\* last-refresh time and self.data are written only by the one caller that
\* holds the lock
C10_OneRefreshInFlight ==
    /\ [](Cardinality({c \in Callers : pc[c] \in InWrapper}) <= 1)
    /\ [](throttle.locked <=> \E c \in Callers : pc[c] \in InWrapper)
    /\ [](\A c \in Callers :
            outcome[c] = "busy" =>
                fetched[c] = NoFetch /\ ReturnValue(outcome[c]) = "None")
    /\ [][(\/ throttle'.last # throttle.last
           \/ data' # data /\ ~OnlyDefaultKeysAdded(data, data')) =>
             \E c \in Callers :
                 /\ pc[c] \in {"publish", "stamp"}
                 /\ pc'[c] # pc[c]
                 /\ \A d \in Callers \ {c} : pc[d] \notin InWrapper]_vars

C10_Witness ==
    \E c, d \in Callers :
        /\ outcome[c] = "busy"
        /\ pc[c] = "L128"
        /\ pc[d] \in {"join", "aggregate"}

----------------------------------------------------------------------------
(* C11 *)

\* the steps that the program takes on its own once a call of update is in
\* the wrapper: every one of them is eventually taken.  The two steps that
\* wait for the network, RequestStations (requests.get, line 159) and
\* FetchComplete (the pool's workers, line 180), are given no fairness: the
\* code passes no timeout, so nothing obliges a request to return
ProgramStep(c) ==
    \/ Check(c)
    \/ LoadStations(c)
    \/ StartPool(c)
    \/ JoinAndDecode(c)
    \/ Aggregate(c)
    \/ Sort(c)
    \/ Publish(c)
    \/ Stamp(c)

FairSpec == Spec /\ \A c \in Callers : WF_vars(ProgramStep(c))

\* C11: every refresh that starts eventually runs to completion or failure,
\* also when an endpoint or the directory source never answers: a caller
\* that is inside update eventually leaves it
C11_EveryRefreshEnds ==
    \A c \in Callers : (pc[c] \in InMethod) ~> (pc[c] \notin InMethod)

----------------------------------------------------------------------------
(* C12 *)

\* C12: the directory load fails whenever the request does not come back
\* with a success status or the table lacks a required column: a refresh
\* that has got past __get_stations holds a directory that was read from a
\* response with status 200 and all the columns
C12_DirectoryNeedsSuccessStatus ==
    \A c \in Callers :
        pc[c] \in {"pool", "join", "aggregate", "publish", "stamp"} =>
            /\ loc.r[1].status = 200
            /\ ~DirectoryLoadFails(loc.r[1])

----------------------------------------------------------------------------
(* C13 *)

\* m is the ceiling of x / 60: the one integer with 60 * (m - 1) < x <= 60 * m
IsCeilOfSixtieth(m, x) == 60 * (m - 1) < x /\ x <= 60 * m

\* C13: when a refresh has published its snapshot, every entry's time_until
\* is the ceiling of (time - current_time) / 60 for the one current_time
\* that the refresh read at line 218, also when time is before current_time
\* and when the difference is a multiple of 60
C13_TimeUntilIsCeiling ==
    \A c \in Callers :
        pc[c] = "stamp" =>
            \A k \in DOMAIN data[1].arrivals :
                \A i \in 1..Len(data[1].arrivals[k]) :
                    LET e == data[1].arrivals[k][i] IN
                    IsCeilOfSixtieth(e.time_until, e.time - loc.current_time)

\* a snapshot built at current_time = StartTime with an arrival 90 s ahead
\* (2 minutes), one exactly 60 s ahead (1) and one exactly 60 s ago (-1)
C13_Witness ==
    \E c \in Callers :
        /\ pc[c] = "stamp"
        /\ loc.current_time = StartTime
        /\ \A x \in {<<90, 2>>, <<60, 1>>, <<0 - 60, 0 - 1>>} :
              \E k \in DOMAIN data[1].arrivals :
                  \E i \in 1..Len(data[1].arrivals[k]) :
                      /\ data[1].arrivals[k][i].time = StartTime + x[1]
                      /\ data[1].arrivals[k][i].time_until = x[2]

----------------------------------------------------------------------------
(* C14 *)

\* C14: a stop id without entries is absent from the arrivals of the current
\* snapshot: no key of arrivals maps to the empty list, right after
\* publication and after any reads by the sensors
C14_NoEmptyArrivals ==
    data # None =>
        \A k \in DOMAIN data[1].arrivals : data[1].arrivals[k] # <<>>

----------------------------------------------------------------------------
(* C15 *)

\* C15: nothing is decoded or aggregated while the refresh is still waiting
\* for the pool, and once it is past the join every endpoint's request has
\* ended, with a response or with an exception: a request that failed has
\* not cut the wait for the others short
C15_JoinBeforeUse ==
    \A c \in Callers :
        /\ pc[c] = "join" => loc.feeds = <<>> /\ loc.arrivals = EmptyMap
        /\ pc[c] \in {"aggregate", "publish", "stamp"} =>
              /\ loc.pending = {}
              /\ Len(loc.responses) + Cardinality(loc.exceptions)
                     = Cardinality(Endpoints)

\* the first request to complete failed, a later one succeeded and its feed
\* is among those being aggregated
C15_Witness ==
    \E c \in Callers :
        /\ pc[c] = "aggregate"
        /\ Len(loc.responses) >= 2
        /\ ~Decoded(loc.responses[1])
        /\ Decoded(loc.responses[Len(loc.responses)])
        /\ loc.feeds # <<>>

----------------------------------------------------------------------------
(* C16 *)

\* C16: two fetch cycles never start less than SCAN_INTERVAL apart, also
\* when the earlier one failed on the station directory: a call issues its
\* first request (line 159) no earlier than SCAN_INTERVAL after the first
\* request of the fetch cycle before it
C16_FetchCyclesAreSpaced ==
    [][\A c \in Callers :
         (pc[c] = "stations" /\ pc'[c] = "csv" /\ lastFetch # None) =>
             now - lastFetch[1] >= SCAN_INTERVAL]_vars

----------------------------------------------------------------------------
(* C17 *)

\* the directory that a table of rows stands for: one record per stop id,
\* that of the last row with the id
DirectoryOf(rows) ==
    LET ids == {rows[i]["GTFS Stop ID"] : i \in 1..Len(rows)}
        LastRow(k) == CHOOSE i \in 1..Len(rows) :
                          /\ rows[i]["GTFS Stop ID"] = k
                          /\ \A j \in (i + 1)..Len(rows) :
                                rows[j]["GTFS Stop ID"] # k
    IN [k \in ids |-> StationRecord(rows[LastRow(k)])]

\* the entries of a snapshot, as <<stop id, entry>> pairs
EntriesOf(snapshot) ==
    UNION {{<<k, snapshot.arrivals[k][i]>> :
               i \in 1..Len(snapshot.arrivals[k])} :
           k \in DOMAIN snapshot.arrivals}

\* C17: the snapshot that a refresh assigns is built from this cycle's
\* inputs alone: its stations are the directory of this cycle's response,
\* its arrivals are exactly the wanted updates of this cycle's decoded feeds
\* at this cycle's current_time, and a station or an entry of the snapshot
\* before it is in the new one only if this cycle's inputs give it again
C17_RebuiltWholesale ==
    [][\A c \in Callers :
         (pc[c] = "publish" /\ pc'[c] = "stamp") =>
            LET feeds == SuccessfulFeeds(loc.responses)
                new == data'[1]
            IN /\ new.stations = DirectoryOf(loc.r[1].rows)
               /\ ExactlyTheUpdates(new.arrivals, new.stations, feeds,
                                    loc.current_time)
               /\ data # None =>
                     /\ \A k \in DOMAIN data[1].stations \cap DOMAIN new.stations :
                           \E i \in 1..Len(loc.r[1].rows) :
                               loc.r[1].rows[i]["GTFS Stop ID"] = k
                     /\ \A e \in EntriesOf(data[1]) \cap EntriesOf(new) :
                           \E t \in Wanted(feeds, new.stations, e[1]) :
                               EntryOf(feeds, t, loc.current_time) = e[2]]_vars

\* a second refresh has just assigned a snapshot without stop C and without
\* arrivals for CS, while the CS sensor still holds the CS arrivals that it
\* read from the snapshot before
C17_Witness ==
    \E c \in Callers :
        /\ pc[c] = "stamp"
        /\ lastRun # None
        /\ sensor[2].arrivals # None
        /\ StopC \notin DOMAIN data[1].stations
        /\ CS \notin DOMAIN data[1].arrivals

----------------------------------------------------------------------------
(* C18 *)

\* C18 as stated: when a sensor's update finds no arrival for its stop in
\* the current snapshot, every field of the sensor stays as it was, and
\* state and arrivals are assigned only while the current snapshot has at
\* least one entry for the stop
C18_AssignedOnlyFromNonEmpty ==
    /\ [][\A s \in Sensors :
            (/\ pc[s] = "L128"
             /\ pc'[s] # "L128"
             /\ data # None
             /\ Get(data[1].arrivals, station_id(s)) = <<>>) =>
                 sensor'[s] = sensor[s] /\ pc'[s] = "idle"]_vars
    /\ [][\A s \in Sensors :
            (\/ sensor'[s].state # sensor[s].state
             \/ sensor'[s].arrivals # sensor[s].arrivals) =>
                Get(data[1].arrivals, station_id(s)) # <<>>]_vars

\* C18, amended: when a sensor's update finds no arrival for its stop in the
\* current snapshot at line 128, every field of the sensor stays as the
\* update before left it; the fields are assigned by the sensor's own update
\* only, state only from a snapshot with an entry for the stop, and an
\* update that has ended has set both state and arrivals or neither.
\* arrivals is read again at line 131, from the snapshot current then: it
\* may be that of a later refresh than the one state was taken from, and
\* it may be empty
C18_EmptyLeavesSensorAsItWas ==
    /\ [][\A s \in Sensors :
            (/\ pc[s] = "L128"
             /\ pc'[s] # "L128"
             /\ data # None
             /\ Get(data[1].arrivals, station_id(s)) = <<>>) =>
                 sensor'[s] = sensor[s] /\ pc'[s] = "idle"]_vars
    /\ [][\A s \in Sensors :
            sensor'[s] # sensor[s] =>
                /\ pc[s] \in {"L128", "L131", "L133"}
                /\ pc'[s] # pc[s]
                /\ pc[s] = "L128" =>
                      /\ Get(data[1].arrivals, station_id(s)) # <<>>
                      /\ sensor'[s].state
                             = Some(data[1].arrivals[station_id(s)][1].time)]_vars
    /\ [](\A s \in Sensors :
            pc[s] \in {"idle", "check", "stations", "csv", "pool", "join",
                       "aggregate", "publish", "stamp", "L128"} =>
                (sensor[s].state = None <=> sensor[s].arrivals = None))

\* a sensor whose own call refreshed the snapshot has ended its update: the
\* snapshot has no arrival for its stop, and the sensor still shows the
\* arrival that it took from the snapshot before
C18_Witness ==
    \E s \in Sensors :
        /\ pc[s] = "idle"
        /\ fetched[s].stations = 1
        /\ outcome[s] = "none"
        /\ \A d \in Sensors \ {s} : pc[d] = "idle" /\ fetched[d] = NoFetch
        /\ station_id(s) \in DOMAIN data[1].arrivals
        /\ data[1].arrivals[station_id(s)] = <<>>
        /\ sensor[s].state # None
        /\ sensor[s].arrivals # None

----------------------------------------------------------------------------
(* C19 *)

\* C19: once a snapshot is published self.data never goes back to None, it
\* always has a stations and an arrivals mapping, and whenever a sensor
\* exists there is a snapshot: the sensors are created only when the first
\* update of setup_platform has returned without an exception
C19_SensorsAlwaysHaveSnapshot ==
    /\ []((\E s \in Sensors : pc[s] # "absent") => data # None)
    /\ [](data # None => DOMAIN data[1] = {"stations", "arrivals"})
    /\ [][data # None => data' # None]_vars
    /\ [][(pc[Setup] = "add" /\ pc'[Setup] = "done") =>
              outcome[Setup] = "ok" /\ data # None]_vars

\* a sensor's later refresh has failed on the station directory and the
\* snapshot of the refresh before it is still there
C19_Witness ==
    \E s \in Sensors :
        /\ pc[s] = "idle"
        /\ outcome[s] = "raised"
        /\ fetched[s].stations = 1
        /\ data # None

====
